---------------------------- MODULE Spec2Model ----------------------------
(***************************************************************************)
(* Post lifecycle and mutation layer of the blog service: the BlogService  *)
(* (blog.service.ts) on top of the BlogRepository (blog.repository.ts,     *)
(* kept in blog.entity.ts together with the mongoose schema) on top of the *)
(* document store.  Requests run concurrently; every repository call is    *)
(* one atomic round trip to the store, and a Service operation that makes  *)
(* two round trips (existence check, then mutate) is two steps that other  *)
(* requests may interleave with.                                           *)
(***************************************************************************)
EXTENDS Integers, Sequences, FiniteSets, TLC

(***************************************************************************)
(* Bounds of the model.                                                    *)
(***************************************************************************)
MaxPosts == 2
MaxProcs == 2
MaxUsers == 2
MaxClock == 1
MaxViews == 3
MaxBatch == 3
MaxLive == 1
MaxTotal == 23
MaxLimit == 10
MaxPage == 4

PostIds == 1..MaxPosts
Procs == 1..MaxProcs
Users == 1..MaxUsers
Batch == 1..MaxBatch

Null == "null"

(* no entity: an identifier that holds no post, a null returned for one *)
Absent == [absent |-> TRUE]

(* a Date path that holds null *)
NoDate == -1

(***************************************************************************)
(* IBlogPostStatus.                                                        *)
(***************************************************************************)
DRAFT == "draft"
PUBLISHED == "published"
ARCHIVED == "archived"
SCHEDULED == "scheduled"
IBlogPostStatus == {DRAFT, PUBLISHED, ARCHIVED, SCHEDULED}

(***************************************************************************)
(* ErrorCode values the Service raises, and the success outcome.           *)
(***************************************************************************)
OK == "ok"
BAD_REQUEST == "BadRequest"
NOT_FOUND == "NotFound"
FORBIDDEN == "Forbidden"
CONFLICT == "Conflict"
INTERNAL_SERVER_ERROR == "InternalError"

VARIABLES store, nextId, now, calls, up

vars == <<store, nextId, now, calls, up>>

(***************************************************************************)
(* Text: a string is a sequence of one-character strings.                  *)
(***************************************************************************)
IsSpace(c) == c = " "

IsAlnum(c) == c \in {"a", "b", "A", "B"}

LowerChar(c) == CASE c = "A" -> "a" [] c = "B" -> "b" [] OTHER -> c

ToLowerCase(s) == [i \in 1..Len(s) |-> LowerChar(s[i])]

RECURSIVE TrimStart(_)
TrimStart(s) == IF s # <<>> /\ IsSpace(Head(s)) THEN TrimStart(Tail(s)) ELSE s

RECURSIVE TrimEnd(_)
TrimEnd(s) ==
    IF s # <<>> /\ IsSpace(s[Len(s)]) THEN TrimEnd(SubSeq(s, 1, Len(s) - 1)) ELSE s

Trim(s) == TrimEnd(TrimStart(s))

(* slug.replace(/\s+/g, replacement): each run of white space becomes "-" *)
RECURSIVE ReplaceSpaces(_)
ReplaceSpaces(s) ==
    IF s = <<>> THEN <<>>
    ELSE IF IsSpace(Head(s))
         THEN <<"-">> \o ReplaceSpaces(TrimStart(s))
         ELSE <<Head(s)>> \o ReplaceSpaces(Tail(s))

(* slugify(title, { lower: true, strict: true }): the replacement character *)
(* counts as a space, strict drops what is neither alphanumeric nor space,  *)
(* then trim, join the words with "-", lowercase.                           *)
slugify(title) ==
    LET spaced == [i \in 1..Len(title) |-> IF title[i] = "-" THEN " " ELSE title[i]]
        strict == SelectSeq(spaced, LAMBDA c : IsAlnum(c) \/ IsSpace(c))
    IN  ToLowerCase(ReplaceSpaces(Trim(strict)))

(* BlogSchema.slug: lowercase: true, trim: true *)
SlugSetter(slug) == ToLowerCase(Trim(slug))

(***************************************************************************)
(* The store: one record per post, or Absent for an identifier that holds *)
(* no post (never created, or deleted).  The store is up or it is not: a   *)
(* call made while it is not up throws, as does a call that has mongoose   *)
(* cast a malformed identifier to an ObjectId; the repository method       *)
(* catches what its call throws.                                            *)
(***************************************************************************)
(* an identifier that is no ObjectId *)
BadId == 0

(* mongoose.Types.ObjectId.isValid *)
ObjectIdIsValid(id) == id # BadId

(* the store call on identifier id returns instead of throwing *)
StoreAnswers(id) == up /\ ObjectIdIsValid(id)

Exists(st, id) == id \in PostIds /\ st[id] # Absent

Stored(st) == {id \in PostIds : st[id] # Absent}

(* the unique index on slug *)
SlugTaken(st, slug) == \E id \in Stored(st) : st[id].slug = slug

(* BlogRepository.normalize: the entity handed back to the Service *)
normalize(id, blog) == [id |-> id, post |-> blog]

(* The document mongoose inserts for a payload: schema setters and defaults *)
NewDocument(payload) ==
    [title |-> payload.title,
     slug |-> SlugSetter(payload.slug),
     author |-> payload.author,
     status |-> payload.status,
     publishedAt |-> NoDate,
     scheduledFor |-> payload.scheduledFor,
     viewCount |-> 0,
     likes |-> <<>>]

(* a variant for a collection without the unique index on slug *)
RepoCreate_NoUniqueIndex(st, id, payload) ==
    IF ~up \/ payload.content = <<>> \/ SlugSetter(payload.slug) = <<>>
    THEN [store |-> st, out |-> Absent]
    ELSE [store |-> [st EXCEPT ![id] = NewDocument(payload)],
          out |-> normalize(id, NewDocument(payload))]

(* BlogRepository.create: Blog.create(data); a rejected insert (required   *)
(* path missing, duplicate slug) is caught and reported as null             *)
RepoCreate(st, id, payload) ==
    IF \/ ~up
       \/ payload.content = <<>>
       \/ SlugSetter(payload.slug) = <<>>
       \/ SlugTaken(st, SlugSetter(payload.slug))
    THEN [store |-> st, out |-> Absent]
    ELSE [store |-> [st EXCEPT ![id] = NewDocument(payload)],
          out |-> normalize(id, NewDocument(payload))]

(* BlogRepository.findById *)
RepoFindById(st, id) ==
    IF ObjectIdIsValid(id) /\ up /\ Exists(st, id) THEN normalize(id, st[id]) ELSE Absent

(* BlogRepository.findBySlug: Blog.findOne({ slug }) *)
RepoFindBySlug(st, slug) ==
    IF up /\ SlugTaken(st, slug)
    THEN LET id == CHOOSE i \in Stored(st) : st[i].slug = slug
         IN  normalize(id, st[id])
    ELSE Absent

(* a variant for a schema that declares no path immutable *)
ImmutablePaths_None == {}

(***************************************************************************)
(* BlogRepository.findAll: two queries sent together (Promise.all), the    *)
(* page of documents and the count of the filter.                          *)
(***************************************************************************)
(* the words of a text, as the text index and $search see them *)
RECURSIVE Words(_)
Words(s) ==
    IF s = <<>> THEN {}
    ELSE IF ~IsAlnum(Head(s)) THEN Words(Tail(s))
    ELSE LET n == CHOOSE k \in 1..Len(s) :
                      /\ \A i \in 1..k : IsAlnum(s[i])
                      /\ k = Len(s) \/ ~IsAlnum(s[k + 1])
         IN  {ToLowerCase(SubSeq(s, 1, n))} \cup Words(SubSeq(s, n + 1, Len(s)))

(* { $text: { $search } } on the text index; of its paths the documents of *)
(* the model keep title                                                     *)
TextMatch(blog, search) == Words(search) \cap Words(blog.title) # {}

(* a variant that tests the search string without trimming it *)
Filter_NoTrim(st, params) ==
    {id \in Stored(st) : params.search = <<>> \/ TextMatch(st[id], params.search)}

(* const filter = {}; if (search.trim()) filter.$text = { $search: search } *)
Filter(st, params) ==
    {id \in Stored(st) : Trim(params.search) = <<>> \/ TextMatch(st[id], params.search)}

(* the value a document is sorted by; timestamps give createdAt, which     *)
(* follows the order of creation                                            *)
SortValue(st, id, sortBy) == IF sortBy = "viewCount" THEN st[id].viewCount ELSE id

(* .sort({ [sortBy]: sortOrder === "asc" ? 1 : -1 }): the orders of the    *)
(* matching documents the store may answer with (ties in any order)        *)
Sorted(st, ids, params) ==
    {order \in [1..Cardinality(ids) -> ids] :
        /\ \A i, j \in DOMAIN order : order[i] = order[j] => i = j
        /\ \A i, j \in DOMAIN order :
              i < j =>
                 IF params.sortOrder = "asc"
                 THEN SortValue(st, order[i], params.sortBy)
                         <= SortValue(st, order[j], params.sortBy)
                 ELSE SortValue(st, order[i], params.sortBy)
                         >= SortValue(st, order[j], params.sortBy)}

(* a variant that counts pages from 0 *)
Skip_PageFromZero(params) == params.page * params.limit

(* const skip = (page - 1) * limit *)
Skip(params) == (params.page - 1) * params.limit

(* .skip(skip).limit(limit) *)
Slice(order, params) ==
    SubSeq(order, Skip(params) + 1,
           IF Skip(params) + params.limit < Len(order)
           THEN Skip(params) + params.limit ELSE Len(order))

(* what a store call that throws leaves in the place of its answer *)
Thrown == [thrown |-> TRUE]

(* Blog.find(filter).sort(sort).skip(skip).limit(limit).lean(): the answers *)
(* the store may give; it rejects a negative skip                            *)
FindQuery(st, params) ==
    IF ~up \/ Skip(params) < 0 THEN {Thrown}
    ELSE {[blogs |-> [i \in DOMAIN Slice(order, params) |->
                         normalize(Slice(order, params)[i],
                                   st[Slice(order, params)[i]])]] :
             order \in Sorted(st, Filter(st, params), params)}

(* Blog.countDocuments(filter) *)
CountQuery(st, params) ==
    IF ~up THEN Thrown ELSE [total |-> Cardinality(Filter(st, params))]

(* the page of the catch branch *)
EmptyPage ==
    [data |-> <<>>,
     pagination |-> [page |-> 1, limit |-> 10, total |-> 0, totalPages |-> 0]]

(* a variant that rounds down *)
Ceil_Floor(total, limit) == total \div limit

(* Math.ceil(total / limit) for limit > 0 *)
Ceil(total, limit) == (total + limit - 1) \div limit

(* a variant without the try / catch around the two queries *)
RepoFindAll_NoCatch(found, counted, params) ==
    IF found = Thrown \/ counted = Thrown THEN Thrown
    ELSE [data |-> found.blogs,
          pagination |-> [page |-> params.page, limit |-> params.limit,
                          total |-> counted.total,
                          totalPages |-> Ceil(counted.total, params.limit)]]

(* BlogRepository.findAll, from the answers to its two queries *)
RepoFindAll(found, counted, params) ==
    IF found = Thrown \/ counted = Thrown THEN EmptyPage
    ELSE [data |-> found.blogs,
          pagination |-> [page |-> params.page, limit |-> params.limit,
                          total |-> counted.total,
                          totalPages |-> Ceil(counted.total, params.limit)]]

(* paths declared immutable: true; a query update that names one has it   *)
(* removed from $set by mongoose (strict mode)                              *)
ImmutablePaths == {"slug", "author"}

(* a variant that replaces the document: a path the update does not name  *)
(* falls back to its default                                                *)
ApplySet_Replace(blog, updates) ==
    [f \in DOMAIN blog |->
        IF f \in DOMAIN updates \ ImmutablePaths THEN updates[f]
        ELSE IF f = "status" THEN DRAFT
        ELSE IF f = "viewCount" THEN 0
        ELSE blog[f]]

(* { $set: updates } on one document *)
ApplySet(blog, updates) ==
    [f \in DOMAIN blog |->
        IF f \in DOMAIN updates \ ImmutablePaths THEN updates[f] ELSE blog[f]]

(* a variant with { upsert: true }: an update of an absent identifier     *)
(* inserts a document                                                       *)
RepoUpdateById_Upsert(st, id, updates) ==
    IF StoreAnswers(id) /\ id \in PostIds
    THEN LET old == IF Exists(st, id) THEN st[id]
                    ELSE [title |-> <<>>, slug |-> <<>>, author |-> 1,
                          status |-> DRAFT, publishedAt |-> NoDate,
                          scheduledFor |-> NoDate, viewCount |-> 0,
                          likes |-> <<>>]
         IN  [store |-> [st EXCEPT ![id] = ApplySet(old, updates)],
              out |-> normalize(id, ApplySet(old, updates))]
    ELSE [store |-> st, out |-> Absent]

(* BlogRepository.updateById: Blog.findByIdAndUpdate(id, { $set }, { new }) *)
RepoUpdateById(st, id, updates) ==
    IF StoreAnswers(id) /\ Exists(st, id)
    THEN [store |-> [st EXCEPT ![id] = ApplySet(st[id], updates)],
          out |-> normalize(id, ApplySet(st[id], updates))]
    ELSE [store |-> st, out |-> Absent]

(* a variant that reports the opposite of what it did *)
RepoDeleteById_ReportsFalse(st, id) ==
    IF StoreAnswers(id) /\ Exists(st, id)
    THEN [store |-> [st EXCEPT ![id] = Absent], out |-> FALSE]
    ELSE [store |-> st, out |-> FALSE]

(* a variant that retires the post instead of removing it *)
RepoDeleteById_Soft(st, id) ==
    IF StoreAnswers(id) /\ Exists(st, id)
    THEN [store |-> [st EXCEPT ![id].status = ARCHIVED], out |-> TRUE]
    ELSE [store |-> st, out |-> FALSE]

(* BlogRepository.deleteById: Blog.findByIdAndDelete(id) *)
RepoDeleteById(st, id) ==
    IF StoreAnswers(id) /\ Exists(st, id)
    THEN [store |-> [st EXCEPT ![id] = Absent], out |-> TRUE]
    ELSE [store |-> st, out |-> FALSE]

(* The tri-state outcomes of the counter and like operations *)
RepoTrue == "true"
RepoNull == "null"
RepoFalse == "false"

(* a variant that writes the counter instead of incrementing it: $set *)
IncViewCount_Set(blog) == [blog EXCEPT !.viewCount = 1]

(* { $inc: { viewCount: 1 } } *)
IncViewCount(blog) == [blog EXCEPT !.viewCount = @ + 1]

(* BlogRepository.incrementViewCount *)
RepoIncrementViewCount(st, id) ==
    IF ~StoreAnswers(id) THEN [store |-> st, out |-> RepoFalse]
    ELSE IF Exists(st, id)
    THEN [store |-> [st EXCEPT ![id] = IncViewCount(st[id])], out |-> RepoTrue]
    ELSE [store |-> st, out |-> RepoNull]

(* likes: { $elemMatch: { user } } *)
HasLike(blog, user) == \E i \in 1..Len(blog.likes) : blog.likes[i].user = user

(* a variant whose filter names the post alone: an unguarded $push *)
AddLikeFilter_None(blog, user) == TRUE

(* the filter of addLike: likes: { $not: { $elemMatch: { user } } } *)
AddLikeFilter(blog, user) == ~HasLike(blog, user)

(* BlogRepository.addLike: one guarded updateOne with $push *)
RepoAddLike(st, id, user, date) ==
    IF ~StoreAnswers(id) THEN [store |-> st, out |-> RepoFalse]
    ELSE IF Exists(st, id) /\ AddLikeFilter(st[id], user)
    THEN [store |-> [st EXCEPT ![id].likes =
                        Append(@, [user |-> user, likedAt |-> date])],
          out |-> RepoTrue]
    ELSE [store |-> st, out |-> RepoNull]

(* a variant that pulls the likes of every user *)
PullLikes_All(likes, user) == <<>>

(* a variant that pulls nothing *)
PullLikes_None(likes, user) == likes

(* { $pull: { likes: { user } } } *)
PullLikes(likes, user) == SelectSeq(likes, LAMBDA l : l.user # user)

(* BlogRepository.removeLike: one guarded updateOne with $pull *)
RepoRemoveLike(st, id, user) ==
    IF ~StoreAnswers(id) THEN [store |-> st, out |-> RepoFalse]
    ELSE IF Exists(st, id) /\ HasLike(st[id], user)
    THEN [store |-> [st EXCEPT ![id].likes = PullLikes(@, user)], out |-> RepoTrue]
    ELSE [store |-> st, out |-> RepoNull]

(* a variant that records the date and leaves the status alone *)
RepoSchedule_KeepStatus(st, id, publishDate) ==
    RepoUpdateById(st, id, [scheduledFor |-> publishDate])

(* BlogRepository.schedule *)
RepoSchedule(st, id, publishDate) ==
    RepoUpdateById(st, id, [scheduledFor |-> publishDate, status |-> SCHEDULED])

(* BlogRepository.publish *)
RepoPublish(st, id, date) ==
    RepoUpdateById(st, id,
        [status |-> PUBLISHED, publishedAt |-> date, scheduledFor |-> date])

(* a variant that also clears the publication date *)
RepoArchive_ClearsPublishedAt(st, id) ==
    RepoUpdateById(st, id, [status |-> ARCHIVED, publishedAt |-> NoDate])

(* BlogRepository.archive *)
RepoArchive(st, id) == RepoUpdateById(st, id, [status |-> ARCHIVED])

(***************************************************************************)
(* A request: the operation it runs, where it stands, its arguments and    *)
(* what it returned to its caller.                                         *)
(***************************************************************************)
NoArg == <<>>

Idle ==
    [op |-> Null, pc |-> "idle", id |-> 0, arg |-> NoArg, seen |-> Absent,
     res |-> Null, ret |-> Absent]

(* the existence check found the entity seen (the Service's local post or  *)
(* existing): the mutate round trip is still to come                        *)
Begin(op, id, arg, seen) ==
    [op |-> op, pc |-> "mutate", id |-> id, arg |-> arg, seen |-> seen,
     res |-> Null, ret |-> Absent]

(* the operation returned res (OK with the entity ret, or an ApiError) *)
Finish(op, id, arg, res, ret) ==
    [op |-> op, pc |-> "done", id |-> id, arg |-> arg, seen |-> Absent,
     res |-> res, ret |-> ret]

Done(c, res, ret) ==
    [c EXCEPT !.pc = "done", !.seen = Absent, !.res = res, !.ret = ret]

(* the empty collection *)
Init_store == [id \in PostIds |-> Absent]

Init ==
    /\ up = TRUE
    /\ store = Init_store
    /\ nextId = 1
    /\ now = 0
    /\ calls = [p \in Procs |-> Idle]

(***************************************************************************)
(* BlogService.create                                                      *)
(***************************************************************************)
(* a variant that makes every new post a draft *)
CreatePayload_AlwaysDraft(post) ==
    [title |-> post.title,
     content |-> post.content,
     slug |-> IF post.slug # <<>> THEN post.slug ELSE slugify(post.title),
     status |-> DRAFT,
     scheduledFor |-> post.scheduledFor,
     author |-> post.author]

CreatePayload(post) ==
    [title |-> post.title,
     content |-> post.content,
     slug |-> IF post.slug # <<>> THEN post.slug ELSE slugify(post.title),
     status |-> IF post.status # Null THEN post.status ELSE DRAFT,
     scheduledFor |-> post.scheduledFor,
     author |-> post.author]

Create(p, post) ==
    /\ calls[p].pc = "idle"
    /\ IF post.title = <<>> \/ post.content = <<>>
       THEN /\ calls' = [calls EXCEPT ![p] =
                            Finish("create", 0, post, BAD_REQUEST, Absent)]
            /\ UNCHANGED <<store, nextId>>
       ELSE /\ nextId <= MaxPosts
            /\ LET r == RepoCreate(store, nextId, CreatePayload(post))
               IN  /\ store' = r.store
                   /\ nextId' = IF r.out = Absent THEN nextId ELSE nextId + 1
                   /\ calls' = [calls EXCEPT ![p] =
                          IF r.out = Absent
                          THEN Finish("create", 0, post, INTERNAL_SERVER_ERROR, Absent)
                          ELSE Finish("create", r.out.id, post, OK, r.out)]
    /\ UNCHANGED <<now, up>>

(***************************************************************************)
(* BlogService.getById, getBySlug                                          *)
(***************************************************************************)
(* a variant that hides every post that is not published *)
DraftGate_NotPublished(blog, includeDrafts) ==
    ~includeDrafts /\ blog.post.status # PUBLISHED

DraftGate(blog, includeDrafts) == ~includeDrafts /\ blog.post.status = DRAFT

GetOutcome(op, id, arg, blog) ==
    IF blog = Absent THEN Finish(op, id, arg, NOT_FOUND, Absent)
    ELSE IF DraftGate(blog, arg.includeDrafts)
         THEN Finish(op, id, arg, FORBIDDEN, Absent)
         ELSE Finish(op, id, arg, OK, blog)

GetById(p, id, includeDrafts) ==
    /\ calls[p].pc = "idle"
    /\ calls' = [calls EXCEPT ![p] =
          GetOutcome("getById", id, [includeDrafts |-> includeDrafts],
                     RepoFindById(store, id))]
    /\ UNCHANGED <<store, nextId, now, up>>

GetBySlug(p, slug, includeDrafts) ==
    /\ calls[p].pc = "idle"
    /\ calls' = [calls EXCEPT ![p] =
          GetOutcome("getBySlug", 0, [slug |-> slug, includeDrafts |-> includeDrafts],
                     RepoFindBySlug(store, slug))]
    /\ UNCHANGED <<store, nextId, now, up>>

(***************************************************************************)
(* BlogService.getAll.  The store answers the two queries of findAll one   *)
(* after the other, in either order, and other requests may write between  *)
(* them.                                                                    *)
(***************************************************************************)
(* if (!result?.data) throw NotFound *)
GetAllOutcome(c, result) ==
    IF "data" \notin DOMAIN result THEN Done(c, NOT_FOUND, Absent)
    ELSE Done(c, OK, result)

(* the first answer arrives: that of the find query or that of the count *)
GetAllFirst(p, query, first) ==
    /\ calls[p].pc = "idle"
    /\ \E answer \in IF first = "find" THEN FindQuery(store, query)
                                       ELSE {CountQuery(store, query)} :
          calls' = [calls EXCEPT ![p] =
                       [Begin("getAll", 0, query, answer) EXCEPT
                           !.pc = IF first = "find" THEN "count" ELSE "find"]]
    /\ UNCHANGED <<store, nextId, now, up>>

(* the second answer arrives and findAll returns *)
GetAllSecond(p) ==
    /\ calls[p].op = "getAll" /\ calls[p].pc \in {"find", "count"}
    /\ \E answer \in IF calls[p].pc = "find" THEN FindQuery(store, calls[p].arg)
                                              ELSE {CountQuery(store, calls[p].arg)} :
          calls' = [calls EXCEPT ![p] =
                       GetAllOutcome(@,
                           IF calls[p].pc = "find"
                           THEN RepoFindAll(answer, calls[p].seen, calls[p].arg)
                           ELSE RepoFindAll(calls[p].seen, answer, calls[p].arg))]
    /\ UNCHANGED <<store, nextId, now, up>>

(* the documents a filter matches, in the order of the sort, when there    *)
(* are total of them                                                        *)
Docs(total) == [i \in 1..total |-> i]

(* findAll on a collection that holds total matching documents and that no *)
(* request writes to: the find query answers with the slice, the count     *)
(* query with total                                                         *)
FindAllQuiescent(p, params) ==
    /\ calls[p].pc = "idle"
    /\ calls' = [calls EXCEPT ![p] =
                    GetAllOutcome(Begin("getAll", 0, params, Absent),
                        RepoFindAll([blogs |-> Slice(Docs(params.total), params)],
                                    [total |-> params.total], params))]
    /\ UNCHANGED <<store, nextId, now, up>>

(***************************************************************************)
(* The existence check that opens update, addLike, removeLike, schedule,   *)
(* publish and archive: findById, NotFound when it reports absence.        *)
(***************************************************************************)
(* a variant that turns a published post away *)
CheckExists_RejectPublished(p, op, id, arg) ==
    calls' = [calls EXCEPT ![p] =
                 IF RepoFindById(store, id) = Absent
                 THEN Finish(op, id, arg, NOT_FOUND, Absent)
                 ELSE IF RepoFindById(store, id).post.status = PUBLISHED
                      THEN Finish(op, id, arg, CONFLICT, Absent)
                      ELSE Begin(op, id, arg, RepoFindById(store, id))]

CheckExists(p, op, id, arg) ==
    calls' = [calls EXCEPT ![p] =
                 IF RepoFindById(store, id) = Absent
                 THEN Finish(op, id, arg, NOT_FOUND, Absent)
                 ELSE Begin(op, id, arg, RepoFindById(store, id))]

(* the outcome of an operation whose mutate step returned an entity or null *)
EntityOutcome(c, out) ==
    IF out = Absent THEN Done(c, INTERNAL_SERVER_ERROR, Absent) ELSE Done(c, OK, out)

(***************************************************************************)
(* BlogService.update                                                      *)
(***************************************************************************)
UpdateFind(p, id, updateData) ==
    /\ calls[p].pc = "idle"
    /\ IF DOMAIN updateData = {}
       THEN calls' = [calls EXCEPT ![p] =
                         Finish("update", id, updateData, BAD_REQUEST, Absent)]
       ELSE CheckExists(p, "update", id, updateData)
    /\ UNCHANGED <<store, nextId, now, up>>

UpdateMutate(p) ==
    /\ calls[p].op = "update" /\ calls[p].pc = "mutate"
    /\ LET r == RepoUpdateById(store, calls[p].id, calls[p].arg)
       IN  /\ store' = r.store
           /\ calls' = [calls EXCEPT ![p] = EntityOutcome(@, r.out)]
    /\ UNCHANGED <<nextId, now, up>>

(***************************************************************************)
(* BlogService.delete                                                      *)
(***************************************************************************)
Delete(p, id) ==
    /\ calls[p].pc = "idle"
    /\ LET r == RepoDeleteById(store, id)
       IN  /\ store' = r.store
           /\ calls' = [calls EXCEPT ![p] =
                  Finish("delete", id, NoArg, IF r.out THEN OK ELSE NOT_FOUND, Absent)]
    /\ UNCHANGED <<nextId, now, up>>

(***************************************************************************)
(* BlogService.incrementViewCount                                          *)
(***************************************************************************)
(* a variant that tells success from the rest: if (!result) throw NotFound *)
ViewOutcome_FalsyIsNotFound(result) == IF result = RepoTrue THEN OK ELSE NOT_FOUND

ViewOutcome(result) ==
    IF result = RepoNull THEN NOT_FOUND
    ELSE IF result = RepoFalse THEN INTERNAL_SERVER_ERROR
    ELSE OK

IncrementViewCount(p, id) ==
    /\ calls[p].pc = "idle"
    /\ Exists(store, id) => store[id].viewCount < MaxViews
    /\ LET r == RepoIncrementViewCount(store, id)
       IN  /\ store' = r.store
           /\ calls' = [calls EXCEPT ![p] =
                  Finish("incrementViewCount", id, NoArg, ViewOutcome(r.out), Absent)]
    /\ UNCHANGED <<nextId, now, up>>

(***************************************************************************)
(* BlogService.addLike, removeLike                                         *)
(***************************************************************************)
(* a variant that takes the null of an unmatched guard for a success *)
LikeOutcome_NullIsSuccess(success) == IF success = RepoFalse THEN CONFLICT ELSE OK

(* if (!success) throw Conflict: null and false are both falsy *)
LikeOutcome(success) == IF success = RepoTrue THEN OK ELSE CONFLICT

AddLikeFind(p, id, user) ==
    /\ calls[p].pc = "idle"
    /\ CheckExists(p, "addLike", id, [user |-> user])
    /\ UNCHANGED <<store, nextId, now, up>>

AddLikeMutate(p) ==
    /\ calls[p].op = "addLike" /\ calls[p].pc = "mutate"
    /\ LET r == RepoAddLike(store, calls[p].id, calls[p].arg.user, now)
       IN  /\ store' = r.store
           /\ calls' = [calls EXCEPT ![p] = Done(@, LikeOutcome(r.out), Absent)]
    /\ UNCHANGED <<nextId, now, up>>

RemoveLikeFind(p, id, user) ==
    /\ calls[p].pc = "idle"
    /\ CheckExists(p, "removeLike", id, [user |-> user])
    /\ UNCHANGED <<store, nextId, now, up>>

RemoveLikeMutate(p) ==
    /\ calls[p].op = "removeLike" /\ calls[p].pc = "mutate"
    /\ LET r == RepoRemoveLike(store, calls[p].id, calls[p].arg.user)
       IN  /\ store' = r.store
           /\ calls' = [calls EXCEPT ![p] = Done(@, LikeOutcome(r.out), Absent)]
    /\ UNCHANGED <<nextId, now, up>>

(***************************************************************************)
(* BlogService.schedule                                                    *)
(***************************************************************************)
(* a variant that lets the present moment pass for a future date *)
NotInFuture_Strict(publishDate, date) == publishDate < date

(* publishDate <= new Date() *)
NotInFuture(publishDate, date) == publishDate <= date

ScheduleFind(p, id, publishDate) ==
    /\ calls[p].pc = "idle"
    /\ IF NotInFuture(publishDate, now)
       THEN calls' = [calls EXCEPT ![p] =
               Finish("schedule", id, [publishDate |-> publishDate], BAD_REQUEST, Absent)]
       ELSE CheckExists(p, "schedule", id, [publishDate |-> publishDate])
    /\ UNCHANGED <<store, nextId, now, up>>

ScheduleMutate(p) ==
    /\ calls[p].op = "schedule" /\ calls[p].pc = "mutate"
    /\ LET r == RepoSchedule(store, calls[p].id, calls[p].arg.publishDate)
       IN  /\ store' = r.store
           /\ calls' = [calls EXCEPT ![p] = EntityOutcome(@, r.out)]
    /\ UNCHANGED <<nextId, now, up>>

(***************************************************************************)
(* BlogService.publish                                                     *)
(***************************************************************************)
(* a variant that compares with the wrong status *)
AlreadyPublished_Archived(blog) == blog.post.status = ARCHIVED

AlreadyPublished(blog) == blog.post.status = PUBLISHED

PublishFind(p, id) ==
    /\ calls[p].pc = "idle"
    /\ LET post == RepoFindById(store, id)
       IN  calls' = [calls EXCEPT ![p] =
               IF post = Absent THEN Finish("publish", id, NoArg, NOT_FOUND, Absent)
               ELSE IF AlreadyPublished(post)
                    THEN Finish("publish", id, NoArg, CONFLICT, Absent)
                    ELSE Begin("publish", id, NoArg, post)]
    /\ UNCHANGED <<store, nextId, now, up>>

PublishMutate(p) ==
    /\ calls[p].op = "publish" /\ calls[p].pc = "mutate"
    /\ LET r == RepoPublish(store, calls[p].id, now)
       IN  /\ store' = r.store
           /\ calls' = [calls EXCEPT ![p] = EntityOutcome(@, r.out)]
    /\ UNCHANGED <<nextId, now, up>>

(***************************************************************************)
(* BlogService.archive                                                     *)
(***************************************************************************)
ArchiveFind(p, id) ==
    /\ calls[p].pc = "idle"
    /\ CheckExists(p, "archive", id, NoArg)
    /\ UNCHANGED <<store, nextId, now, up>>

ArchiveMutate(p) ==
    /\ calls[p].op = "archive" /\ calls[p].pc = "mutate"
    /\ LET r == RepoArchive(store, calls[p].id)
       IN  /\ store' = r.store
           /\ calls' = [calls EXCEPT ![p] = EntityOutcome(@, r.out)]
    /\ UNCHANGED <<nextId, now, up>>

(* the caller takes the outcome; the request slot serves the next request *)
Return(p) ==
    /\ calls[p].pc = "done"
    /\ calls' = [calls EXCEPT ![p] = Idle]
    /\ UNCHANGED <<store, nextId, now, up>>

(* time passes *)
Tick ==
    /\ now < MaxClock
    /\ now' = now + 1
    /\ UNCHANGED <<store, nextId, calls, up>>

(* the store stops answering: its calls throw until it recovers *)
StoreFails ==
    /\ up
    /\ up' = FALSE
    /\ UNCHANGED <<store, nextId, now, calls>>

StoreRecovers ==
    /\ ~up
    /\ up' = TRUE
    /\ UNCHANGED <<store, nextId, now, calls>>

(***************************************************************************)
(* Inputs.                                                                 *)
(***************************************************************************)
Titles == {<<"A", " ", "b">>, <<"a", "-", "B", "!">>, <<"b">>}

Content == <<"a">>

Dates == 0..(MaxClock + 1)

Slugs == {slugify(t) : t \in Titles}

(***************************************************************************)
(* Spec: the lifecycle of posts.  Requests create, read, update, delete,   *)
(* schedule, publish and archive posts concurrently while time passes.     *)
(***************************************************************************)
LifecycleCreates ==
    [title : {<<"A", " ", "b">>}, content : {Content}, slug : {<<>>},
     status : {Null, PUBLISHED}, scheduledFor : {NoDate}, author : {1}]

(* the lifecycle is followed on one stored post at a time *)
LifecycleCreate(p, post) == Cardinality(Stored(store)) < MaxLive /\ Create(p, post)

LifecycleUpdates == {NoArg} \cup [status : {PUBLISHED}] \cup [publishedAt : {NoDate}]

Next ==
    \/ \E p \in Procs, post \in LifecycleCreates : LifecycleCreate(p, post)
    \/ \E p \in Procs, id \in PostIds, includeDrafts \in BOOLEAN :
          GetById(p, id, includeDrafts)
    \/ \E p \in Procs, slug \in Slugs, includeDrafts \in BOOLEAN :
          GetBySlug(p, slug, includeDrafts)
    \/ \E p \in Procs, id \in PostIds, updateData \in LifecycleUpdates :
          UpdateFind(p, id, updateData)
    \/ \E p \in Procs : UpdateMutate(p)
    \/ \E p \in Procs, id \in PostIds : Delete(p, id)
    \/ \E p \in Procs, id \in PostIds, publishDate \in Dates :
          ScheduleFind(p, id, publishDate)
    \/ \E p \in Procs : ScheduleMutate(p)
    \/ \E p \in Procs, id \in PostIds : PublishFind(p, id)
    \/ \E p \in Procs : PublishMutate(p)
    \/ \E p \in Procs, id \in PostIds : ArchiveFind(p, id)
    \/ \E p \in Procs : ArchiveMutate(p)
    \/ \E p \in Procs : Return(p)
    \/ Tick

Spec == Init /\ [][Next]_vars

(***************************************************************************)
(* Properties of the lifecycle (Spec).                                     *)
(***************************************************************************)

(* C4: in every reachable state a post whose status is published has       *)
(* publishedAt set.                                                         *)
C4_PublishedHasPublishedAt ==
    \A id \in Stored(store) :
        store[id].status = PUBLISHED => store[id].publishedAt # NoDate

(* the request of p takes its first step, as operation op *)
Starts(p, op) == calls[p].pc = "idle" /\ calls'[p].op = op

(* the request of p, running one of ops, takes its mutate step *)
Mutates(p, ops) ==
    calls[p].pc = "mutate" /\ calls[p].op \in ops /\ calls'[p].pc = "done"

(* C5: a publish call that finds its post with status published fails      *)
(* Conflict, and the step leaves every stored post as it was.              *)
C5_PublishOnPublishedConflicts ==
    [][\A p \in Procs :
          (/\ Starts(p, "publish")
           /\ Exists(store, calls'[p].id)
           /\ store[calls'[p].id].status = PUBLISHED)
          => (/\ calls'[p].pc = "done"
              /\ calls'[p].res = CONFLICT
              /\ store' = store)]_vars

C5_Witness ==
    \E p \in Procs :
        /\ calls[p].op = "publish" /\ calls[p].res = CONFLICT
        /\ Exists(store, calls[p].id)
        /\ store[calls[p].id].status = PUBLISHED
        /\ store[calls[p].id].publishedAt # NoDate

C7_DeletedBeforeMutateIsNotFound ==
    [][\A p \in Procs :
          (/\ Mutates(p, {"update", "schedule", "publish", "archive"})
           /\ ~Exists(store, calls[p].id))
          => (calls'[p].res = NOT_FOUND /\ store' = store)]_vars

(* the outcome C9 asks of a read that finds blog (Absent: no post) *)
C9_Expected(c, blog) ==
    IF blog = Absent THEN c.res = NOT_FOUND
    ELSE IF blog.post.status = DRAFT /\ ~c.arg.includeDrafts THEN c.res = FORBIDDEN
    ELSE c.res = OK /\ c.ret = blog

(* C9: getById and getBySlug fail NotFound on an absent post and Forbidden *)
(* on a draft without includeDrafts; they return the post otherwise.       *)
C9_DraftVisibilityGate ==
    [][\A p \in Procs :
          /\ Starts(p, "getById") =>
                C9_Expected(calls'[p],
                    IF store[calls'[p].id] = Absent THEN Absent
                    ELSE [id |-> calls'[p].id, post |-> store[calls'[p].id]])
          /\ Starts(p, "getBySlug") =>
                /\ (\A id \in Stored(store) : store[id].slug # calls'[p].arg.slug)
                      => C9_Expected(calls'[p], Absent)
                /\ \A id \in Stored(store) :
                      store[id].slug = calls'[p].arg.slug
                      => C9_Expected(calls'[p], [id |-> id, post |-> store[id]])]_vars

C9_Witness ==
    \E p, q \in Procs :
        /\ calls[p].op = "getById" /\ calls[p].res = FORBIDDEN
        /\ calls[q].op = "getBySlug" /\ calls[q].res = OK
        /\ ~calls[q].arg.includeDrafts
        /\ calls[q].ret.post.status = ARCHIVED

(* C12: a schedule call whose date is not later than the clock returns     *)
(* BadRequest at its first step, whether or not the identifier holds a post *)
(* (the date is judged before the store is asked), and the store is as it  *)
(* was; a call with a later date on a stored post goes on to its mutate    *)
(* step, which on a post still stored succeeds and sets the status to      *)
(* scheduled and scheduledFor to exactly that date.                         *)
C12_ScheduleRejectsPastDateFirst ==
    [][\A p \in Procs :
          /\ (Starts(p, "schedule") /\ calls'[p].arg.publishDate <= now)
             => (/\ calls'[p].pc = "done"
                 /\ calls'[p].res = BAD_REQUEST
                 /\ store' = store)
          /\ (/\ Starts(p, "schedule")
              /\ calls'[p].arg.publishDate > now
              /\ Exists(store, calls'[p].id))
             => (calls'[p].pc = "mutate" /\ store' = store)
          /\ (Mutates(p, {"schedule"}) /\ Exists(store, calls[p].id))
             => (/\ calls'[p].res = OK
                 /\ store'[calls[p].id].status = SCHEDULED
                 /\ store'[calls[p].id].scheduledFor = calls[p].arg.publishDate
                 /\ calls'[p].ret = normalize(calls[p].id, store'[calls[p].id]))]_vars

C12_Witness ==
    \E p, q \in Procs :
        /\ calls[p].op = "schedule" /\ calls[p].res = BAD_REQUEST
        /\ calls[p].arg.publishDate = now
        /\ ~Exists(store, calls[p].id)
        /\ calls[q].op = "schedule" /\ calls[q].res = OK
        /\ Exists(store, calls[q].id)
        /\ store[calls[q].id].status = SCHEDULED
        /\ store[calls[q].id].scheduledFor = calls[q].arg.publishDate
        /\ calls[q].arg.publishDate = MaxClock + 1

(* C13: a step that gives a post a scheduledFor it did not have (a post    *)
(* created with one, or one whose scheduledFor changes to a date) writes a *)
(* date later than the clock at that step.                                  *)
C13_ScheduledForWrittenInFuture ==
    [][\A id \in PostIds :
          (/\ Exists(store', id)
           /\ store'[id].scheduledFor # NoDate
           /\ ~Exists(store, id) \/ store[id].scheduledFor # store'[id].scheduledFor)
          => store'[id].scheduledFor > now]_vars

(* C18: the mutate step of a publish call that succeeds sets the status of *)
(* its post to published and its publishedAt to the clock, and changes     *)
(* nothing else: no other field of the post, scheduledFor included, and no *)
(* other post.                                                              *)
C18_PublishTouchesStatusAndPublishedAt ==
    [][\A p \in Procs :
          (Mutates(p, {"publish"}) /\ calls'[p].res = OK)
          => store' = [store EXCEPT ![calls[p].id].status = PUBLISHED,
                                    ![calls[p].id].publishedAt = now]]_vars

(* C19: an archive call on a stored post goes on to its mutate step in any *)
(* status; the mutate step on a post still stored succeeds, returns the     *)
(* post and changes its status to archived and nothing else (publishedAt   *)
(* and every other post included), so on an archived post it changes        *)
(* nothing.                                                                 *)
C19_ArchiveTouchesOnlyStatus ==
    [][\A p \in Procs :
          /\ (Starts(p, "archive") /\ Exists(store, calls'[p].id))
             => (calls'[p].pc = "mutate" /\ store' = store)
          /\ (Mutates(p, {"archive"}) /\ Exists(store, calls[p].id))
             => (/\ calls'[p].res = OK
                 /\ store' = [store EXCEPT ![calls[p].id].status = ARCHIVED]
                 /\ store[calls[p].id].status = ARCHIVED => store' = store
                 /\ calls'[p].ret = normalize(calls[p].id, store'[calls[p].id]))]_vars

C19_Witness ==
    \E p, q \in Procs :
        /\ p # q
        /\ calls[p].op = "archive" /\ calls[p].res = OK
        /\ calls[q].op = "archive" /\ calls[q].res = OK
        /\ calls[p].id = calls[q].id
        /\ calls[p].ret = calls[q].ret
        /\ calls[p].ret.post.status = ARCHIVED
        /\ calls[p].ret.post.publishedAt # NoDate
        /\ calls[p].ret.post.scheduledFor # calls[p].ret.post.publishedAt

(* C20: a schedule call with a date later than the clock is not rejected   *)
(* on a stored post, whatever the status of the post; its mutate step on a *)
(* post still stored succeeds, sets the status to scheduled and replaces   *)
(* scheduledFor, whatever it was, by the date of the call, and changes     *)
(* nothing else.                                                            *)
C20_ScheduleFromAnyStatus ==
    [][\A p \in Procs :
          /\ (/\ Starts(p, "schedule")
              /\ calls'[p].arg.publishDate > now
              /\ Exists(store, calls'[p].id))
             => (/\ calls'[p].res = Null
                 /\ calls'[p].seen = normalize(calls'[p].id, store[calls'[p].id]))
          /\ (Mutates(p, {"schedule"}) /\ Exists(store, calls[p].id))
             => (/\ calls'[p].res = OK
                 /\ store' = [store EXCEPT
                        ![calls[p].id].status = SCHEDULED,
                        ![calls[p].id].scheduledFor = calls[p].arg.publishDate])]_vars

C20_Witness ==
    \E p, q \in Procs :
        /\ calls[p].op = "schedule" /\ calls[p].res = OK
        /\ calls[q].op = "schedule" /\ calls[q].res = OK
        /\ calls[p].id = calls[q].id
        /\ calls[p].ret.post.scheduledFor # calls[q].ret.post.scheduledFor
        /\ calls[q].ret.post.publishedAt # NoDate
        /\ Exists(store, calls[q].id)
        /\ store[calls[q].id] = calls[q].ret.post

(* C23: a delete call succeeds exactly when its identifier holds a post,   *)
(* which it removes whole, and returns NotFound and writes nothing          *)
(* otherwise; a getById call on an identifier that holds no post returns   *)
(* NotFound and a getBySlug call never returns a post the store does not   *)
(* hold; of the delete calls on one identifier at most one has succeeded.  *)
C23_DeleteIsHardRemoval ==
    [][/\ \A p \in Procs :
             /\ Starts(p, "delete") =>
                   /\ calls'[p].pc = "done"
                   /\ IF Exists(store, calls'[p].id)
                      THEN /\ calls'[p].res = OK
                           /\ store' = [store EXCEPT ![calls'[p].id] = Absent]
                      ELSE calls'[p].res = NOT_FOUND /\ store' = store
             /\ (Starts(p, "getById") /\ ~Exists(store, calls'[p].id))
                   => calls'[p].res = NOT_FOUND
             /\ Starts(p, "getBySlug") =>
                   IF \E id \in Stored(store) : store[id].slug = calls'[p].arg.slug
                   THEN calls'[p].res # OK \/ Exists(store, calls'[p].ret.id)
                   ELSE calls'[p].res = NOT_FOUND
       /\ \A p, q \in Procs :
             (/\ p # q
              /\ calls'[p].op = "delete" /\ calls'[q].op = "delete"
              /\ calls'[p].id = calls'[q].id
              /\ calls'[p].res = OK)
             => calls'[q].res = NOT_FOUND]_vars

C23_Witness ==
    \E p, q \in Procs :
        /\ calls[p].op = "delete" /\ calls[p].res = OK
        /\ calls[q].op = "delete" /\ calls[q].res = NOT_FOUND
        /\ calls[p].id = calls[q].id
        /\ Stored(store) # {}

(* C30: of publish calls that overlap on a post that was not published,    *)
(* one succeeds: the write of a publish call that meets the post as another *)
(* publish call, already returned with success, left it, fails Conflict and *)
(* leaves publishedAt as that call wrote it.                                *)
C30_ConcurrentPublishOneWins ==
    [][\A p, q \in Procs :
          (/\ p # q
           /\ Mutates(p, {"publish"})
           /\ calls[q].op = "publish" /\ calls[q].pc = "done"
           /\ calls[q].res = OK /\ calls[q].id = calls[p].id
           /\ Exists(store, calls[p].id)
           /\ store[calls[p].id] = calls[q].ret.post)
          => /\ calls'[p].res = CONFLICT
             /\ store'[calls[p].id].publishedAt = store[calls[p].id].publishedAt]_vars

(***************************************************************************)
(* SpecEngage: likes.  Requests like and unlike a post while others        *)
(* create, update, delete, schedule, publish and archive.                  *)
(***************************************************************************)
EngageCreates ==
    [title : {<<"b">>}, content : {Content}, slug : {<<>>},
     status : {Null}, scheduledFor : {NoDate}, author : {1}]

EngageUpdates == [status : {DRAFT}]

NextEngage ==
    \/ \E p \in Procs, post \in EngageCreates : LifecycleCreate(p, post)
    \/ \E p \in Procs, id \in PostIds, updateData \in EngageUpdates :
          UpdateFind(p, id, updateData)
    \/ \E p \in Procs : UpdateMutate(p)
    \/ \E p \in Procs, id \in PostIds : Delete(p, id)
    \/ \E p \in Procs, id \in PostIds, user \in Users : AddLikeFind(p, id, user)
    \/ \E p \in Procs : AddLikeMutate(p)
    \/ \E p \in Procs, id \in PostIds, user \in Users : RemoveLikeFind(p, id, user)
    \/ \E p \in Procs : RemoveLikeMutate(p)
    \/ \E p \in Procs, id \in PostIds : ScheduleFind(p, id, MaxClock + 1)
    \/ \E p \in Procs : ScheduleMutate(p)
    \/ \E p \in Procs, id \in PostIds : PublishFind(p, id)
    \/ \E p \in Procs : PublishMutate(p)
    \/ \E p \in Procs, id \in PostIds : ArchiveFind(p, id)
    \/ \E p \in Procs : ArchiveMutate(p)
    \/ \E p \in Procs : Return(p)

SpecEngage == Init /\ [][NextEngage]_vars

(***************************************************************************)
(* Properties of likes (SpecEngage).                                       *)
(***************************************************************************)
LikesOf(blog, user) == {i \in 1..Len(blog.likes) : blog.likes[i].user = user}

(* C3: in every reachable state the likes list of each post holds at most  *)
(* one entry per user.                                                      *)
C3_OneLikePerUser ==
    \A id \in Stored(store) :
        \A user \in Users : Cardinality(LikesOf(store[id], user)) <= 1

C3_Witness ==
    \E id \in Stored(store) :
        /\ Len(store[id].likes) = MaxUsers
        /\ \E p \in Procs :
              /\ calls[p].op = "addLike" /\ calls[p].id = id
              /\ calls[p].res = CONFLICT

(* C8: an addLike or removeLike call whose post was deleted between its    *)
(* existence check and its guarded mutation reports NotFound and stores    *)
(* nothing.                                                                 *)
C8_DeletedBeforeLikeIsNotFound ==
    [][\A p \in Procs :
          (/\ Mutates(p, {"addLike", "removeLike"})
           /\ ~Exists(store, calls[p].id))
          => (calls'[p].res = NOT_FOUND /\ store' = store)]_vars

(***************************************************************************)
(* SpecSlug: the slug of a post.  Requests create posts from titles and    *)
(* explicit slugs, update them with a payload that names slug, delete them *)
(* and read them by slug.                                                   *)
(***************************************************************************)
SlugCreates ==
    [title : Titles, content : {Content}, slug : {<<>>, <<"B">>},
     status : {Null}, scheduledFor : {NoDate}, author : {1}]

SlugUpdates == [slug : Slugs]

NextSlug ==
    \/ \E p \in Procs, post \in SlugCreates : Create(p, post)
    \/ \E p \in Procs, id \in PostIds, updateData \in SlugUpdates :
          UpdateFind(p, id, updateData)
    \/ \E p \in Procs : UpdateMutate(p)
    \/ \E p \in Procs, id \in PostIds : Delete(p, id)
    \/ \E p \in Procs, slug \in Slugs, includeDrafts \in BOOLEAN :
          GetBySlug(p, slug, includeDrafts)
    \/ \E p \in Procs : Return(p)

SpecSlug == Init /\ [][NextSlug]_vars

SlugsUnique(st) ==
    \A i, j \in Stored(st) : st[i].slug = st[j].slug => i = j

(* C10: no two stored posts have the same slug, and a create call without  *)
(* explicit slug whose title normalizes to a slug that a stored post has    *)
(* creates nothing and returns InternalError or Conflict.                   *)
C10_SlugUniqueness ==
    [][/\ SlugsUnique(store')
       /\ \A p \in Procs :
             (/\ Starts(p, "create")
              /\ calls'[p].arg.title # <<>>
              /\ calls'[p].arg.slug = <<>>
              /\ \E id \in Stored(store) :
                    store[id].slug = slugify(calls'[p].arg.title))
             => (/\ calls'[p].res \in {INTERNAL_SERVER_ERROR, CONFLICT}
                 /\ store' = store)]_vars

C10_Witness ==
    \E p \in Procs, id \in Stored(store) :
        /\ calls[p].op = "create" /\ calls[p].res = INTERNAL_SERVER_ERROR
        /\ calls[p].arg.slug = <<>>
        /\ calls[p].arg.title # store[id].title
        /\ slugify(calls[p].arg.title) = store[id].slug
        /\ Cardinality(Stored(store)) = MaxPosts

(* C11: no step changes the slug or the author of a stored post: an update *)
(* whose payload names slug succeeds and leaves the slug as it was.         *)
C11_SlugAndAuthorImmutable ==
    [][/\ \A id \in Stored(store) :
             Exists(store', id) =>
                /\ store'[id].slug = store[id].slug
                /\ store'[id].author = store[id].author
       /\ \A p \in Procs :
             (Mutates(p, {"update"}) /\ Exists(store, calls[p].id))
             => (/\ calls'[p].res = OK
                 /\ calls'[p].ret.post.slug = store[calls[p].id].slug)]_vars

C11_Witness ==
    \E p \in Procs :
        /\ calls[p].op = "update" /\ calls[p].res = OK
        /\ "slug" \in DOMAIN calls[p].arg
        /\ calls[p].arg.slug # calls[p].ret.post.slug
        /\ Exists(store, calls[p].id)
        /\ store[calls[p].id].slug = calls[p].ret.post.slug
        /\ store[calls[p].id].slug # slugify(store[calls[p].id].title)

(***************************************************************************)
(* SpecFault: a store that fails.  Requests create, delete, view, like,    *)
(* unlike and list posts, under well-formed and malformed identifiers,     *)
(* while the store stops answering and recovers.                            *)
(***************************************************************************)
Ids == {BadId} \cup PostIds

FaultCreates ==
    [title : {<<"b">>}, content : {Content}, slug : {<<>>},
     status : {Null}, scheduledFor : {NoDate}, author : {1}]

FaultQueries ==
    [page : {1}, limit : {1}, search : {<<>>, <<"b">>},
     sortBy : {"createdAt"}, sortOrder : {"desc"}]

NextFault ==
    \/ \E p \in Procs, post \in FaultCreates : LifecycleCreate(p, post)
    \/ \E p \in Procs, id \in Ids : Delete(p, id)
    \/ \E p \in Procs, id \in Ids : IncrementViewCount(p, id)
    \/ \E p \in Procs, id \in Ids : AddLikeFind(p, id, 1)
    \/ \E p \in Procs : AddLikeMutate(p)
    \/ \E p \in Procs, id \in Ids : RemoveLikeFind(p, id, 1)
    \/ \E p \in Procs : RemoveLikeMutate(p)
    \/ \E p \in Procs, query \in FaultQueries, first \in {"find", "count"} :
          GetAllFirst(p, query, first)
    \/ \E p \in Procs : GetAllSecond(p)
    \/ \E p \in Procs : Return(p)
    \/ StoreFails
    \/ StoreRecovers

SpecFault == Init /\ [][NextFault]_vars

(***************************************************************************)
(* Properties of the failing store (SpecFault).                            *)
(***************************************************************************)
TriState == {RepoTrue, RepoNull, RepoFalse}

C16_LikeStoreErrorIsInternal ==
    [][\A p \in Procs :
          Mutates(p, {"addLike", "removeLike"}) =>
             /\ ~up => calls'[p].res = INTERNAL_SERVER_ERROR
             /\ calls'[p].res = CONFLICT <=> (up /\ store' = store)]_vars

(* the outcomes C17 asks of the repository operations on identifier id *)
C17_Outcomes(id) ==
    /\ RepoFindById(store, id) # Thrown
    /\ RepoUpdateById(store, id, [title |-> <<"a">>]).out # Thrown
    /\ RepoSchedule(store, id, now + 1).out # Thrown
    /\ RepoPublish(store, id, now).out # Thrown
    /\ RepoArchive(store, id).out # Thrown
    /\ RepoDeleteById(store, id).out \in BOOLEAN
    /\ RepoIncrementViewCount(store, id).out \in TriState
    /\ \A user \in Users :
          /\ RepoAddLike(store, id, user, now).out \in TriState
          /\ RepoRemoveLike(store, id, user).out \in TriState
    /\ ~StoreAnswers(id) =>
          /\ RepoUpdateById(store, id, [title |-> <<"a">>]) = [store |-> store, out |-> Absent]
          /\ RepoSchedule(store, id, now + 1) = [store |-> store, out |-> Absent]
          /\ RepoPublish(store, id, now) = [store |-> store, out |-> Absent]
          /\ RepoArchive(store, id) = [store |-> store, out |-> Absent]
          /\ RepoDeleteById(store, id) = [store |-> store, out |-> FALSE]
          /\ RepoIncrementViewCount(store, id) = [store |-> store, out |-> RepoFalse]
          /\ \A user \in Users :
                /\ RepoAddLike(store, id, user, now) = [store |-> store, out |-> RepoFalse]
                /\ RepoRemoveLike(store, id, user) = [store |-> store, out |-> RepoFalse]
    /\ (~up \/ id = BadId) => RepoFindById(store, id) = Absent

(* C17: in every reachable state, the store up or not, every repository    *)
(* operation applied to any input, a malformed identifier included, gives  *)
(* an outcome of its kind (an entity or absence, a boolean, a tri-state, a *)
(* page) and nothing thrown; when the store call throws, the outcome is    *)
(* the failure value and the store is as it was; findAll gives the empty   *)
(* page with total 0 when one of its queries throws, and a getAll call     *)
(* returns the page findAll gave.                                           *)
C17_RepositoryNeverRaises ==
    /\ \A id \in Ids : C17_Outcomes(id)
    /\ \A post \in FaultCreates :
          nextId \in PostIds =>
             /\ RepoCreate(store, nextId, CreatePayload(post)).out # Thrown
             /\ ~up => RepoCreate(store, nextId, CreatePayload(post))
                          = [store |-> store, out |-> Absent]
    /\ \A slug \in Slugs :
          /\ RepoFindBySlug(store, slug) # Thrown
          /\ ~up => RepoFindBySlug(store, slug) = Absent
    /\ \A query \in FaultQueries : \A found \in FindQuery(store, query) :
          /\ "data" \in DOMAIN RepoFindAll(found, CountQuery(store, query), query)
          /\ ~up => /\ RepoFindAll(found, CountQuery(store, query), query).data = <<>>
                    /\ RepoFindAll(found, CountQuery(store, query), query)
                          .pagination.total = 0
    /\ \A p \in Procs :
          (calls[p].op = "getAll" /\ calls[p].pc = "done")
          => (calls[p].res = OK /\ "data" \in DOMAIN calls[p].ret)
    /\ \A p \in Procs :
          (calls[p].op = "getAll" /\ calls[p].pc \in {"find", "count"}
             /\ (~up \/ calls[p].seen = Thrown))
          => \A found \in FindQuery(store, calls[p].arg) :
                IF calls[p].pc = "find"
                THEN RepoFindAll(found, calls[p].seen, calls[p].arg) = EmptyPage
                ELSE RepoFindAll(calls[p].seen, CountQuery(store, calls[p].arg),
                                 calls[p].arg) = EmptyPage

C17_Witness ==
    \E p, q \in Procs :
        /\ ~up
        /\ calls[p].op = "getAll" /\ calls[p].pc = "done"
        /\ calls[p].ret = EmptyPage
        /\ calls[p].arg.search = <<>>
        /\ Stored(store) # {}
        /\ calls[q].op = "delete" /\ calls[q].res = NOT_FOUND
        /\ Exists(store, calls[q].id)

(***************************************************************************)
(* SpecBatch: a batch of concurrent requests on one stored post, each      *)
(* liking it for the same user or viewing it.                               *)
(***************************************************************************)
BatchCreates ==
    [title : {<<"b">>}, content : {Content}, slug : {<<>>},
     status : {Null, PUBLISHED}, scheduledFor : {NoDate}, author : {1}]

(* the post of the batch is the first post created; the user of the batch  *)
(* has not liked it, another user may have                                  *)
InitBatch ==
    /\ up = TRUE
    /\ \E post \in BatchCreates, other \in {0} \cup (Users \ {1}) :
          store = [id \in PostIds |->
                      IF id = 1
                      THEN IF other = 0
                           THEN RepoCreate(Init_store, 1, CreatePayload(post)).store[1]
                           ELSE RepoAddLike(
                                    RepoCreate(Init_store, 1, CreatePayload(post)).store,
                                    1, other, 0).store[1]
                      ELSE Absent]
    /\ nextId = 2
    /\ now = 0
    /\ calls = [p \in Batch |-> Idle]

NextBatch ==
    \/ \E p \in Batch : AddLikeFind(p, 1, 1)
    \/ \E p \in Batch : AddLikeMutate(p)
    \/ \E p \in Batch : IncrementViewCount(p, 1)

SpecBatch == InitBatch /\ [][NextBatch]_vars

Likers == {p \in Batch : calls[p].op = "addLike"}

Viewers == {p \in Batch : calls[p].op = "incrementViewCount"}

(* C1: of the concurrent addLike calls of one user on a stored post that   *)
(* the user has not liked, exactly one returns success and every other     *)
(* returns Conflict, and one like entry of the user is stored.              *)
C1_AtomicLike ==
    LET won == {p \in Likers : calls[p].res = OK}
        over == \A p \in Likers : calls[p].pc = "done"
    IN  /\ Cardinality(LikesOf(store[1], 1)) = Cardinality(won)
        /\ Cardinality(won) <= 1
        /\ \A p \in Likers : calls[p].pc = "done" => calls[p].res \in {OK, CONFLICT}
        /\ (over /\ Likers # {}) => Cardinality(won) = 1

C1_Witness ==
    /\ Likers = Batch
    /\ \A p \in Batch : calls[p].pc = "done"
    /\ Cardinality({p \in Batch : calls[p].res = CONFLICT}) = MaxBatch - 1
    /\ Len(store[1].likes) = 2

(* C2: every incrementViewCount call on a stored post returns success, and *)
(* the viewCount of the post has grown by the number of these calls.       *)
C2_NoLostView ==
    /\ \A p \in Viewers : calls[p].res = OK
    /\ store[1].viewCount = Cardinality(Viewers)

C2_Witness ==
    /\ Viewers = Batch
    /\ store[1].viewCount = MaxBatch

(***************************************************************************)
(* SpecOnce: one call each.  On a store that holds one post, and that may  *)
(* fail, every request makes one call, a mutation of the Service.          *)
(***************************************************************************)
OnceCreates ==
    [title : {<<>>, <<"b">>, <<"a">>}, content : {Content}, slug : {<<>>},
     status : {Null}, scheduledFor : {NoDate}, author : {1}]

OnceUpdates == {NoArg} \cup [status : {DRAFT}]

NextOnce ==
    \/ \E p \in Batch, post \in OnceCreates : Create(p, post)
    \/ \E p \in Batch, id \in Ids, updateData \in OnceUpdates :
          UpdateFind(p, id, updateData)
    \/ \E p \in Batch : UpdateMutate(p)
    \/ \E p \in Batch, id \in Ids : Delete(p, id)
    \/ \E p \in Batch, id \in Ids : IncrementViewCount(p, id)
    \/ \E p \in Batch, id \in Ids : AddLikeFind(p, id, 1)
    \/ \E p \in Batch : AddLikeMutate(p)
    \/ \E p \in Batch, id \in Ids : RemoveLikeFind(p, id, 1)
    \/ \E p \in Batch : RemoveLikeMutate(p)
    \/ \E p \in Batch, id \in Ids, publishDate \in {0, MaxClock + 1} :
          ScheduleFind(p, id, publishDate)
    \/ \E p \in Batch : ScheduleMutate(p)
    \/ \E p \in Batch, id \in Ids : PublishFind(p, id)
    \/ \E p \in Batch : PublishMutate(p)
    \/ \E p \in Batch, id \in Ids : ArchiveFind(p, id)
    \/ \E p \in Batch : ArchiveMutate(p)
    \/ StoreFails
    \/ StoreRecovers

SpecOnce == InitBatch /\ [][NextOnce]_vars

(* C14: a step of a mutation that does not return success (it returns an   *)
(* error, or it is the existence check of a call that goes on) leaves the  *)
(* store as it was: a call that ends in an error has written nothing.      *)
C14_ErrorLeavesStore ==
    [][\A p \in Batch :
          (calls'[p] # calls[p] /\ calls'[p].res # OK) => store' = store]_vars

C14_Witness ==
    \E p, q, r \in Batch :
        /\ calls[p].op = "delete" /\ calls[p].res = OK
        /\ calls[q].op \in {"update", "schedule", "publish", "archive"}
        /\ calls[q].res = INTERNAL_SERVER_ERROR
        /\ calls[q].id = calls[p].id
        /\ calls[r].op = "create" /\ calls[r].res = INTERNAL_SERVER_ERROR
        /\ up
        /\ Stored(store) = {}

(* C27: the viewCount of every stored post is at least 0 in every          *)
(* reachable state, and no step of any operation lowers the viewCount of a *)
(* post that is stored before and after it.                                 *)
C27_ViewCountMonotone ==
    /\ [](\A id \in Stored(store) : store[id].viewCount >= 0)
    /\ [][\A id \in Stored(store) :
             Exists(store', id) => store'[id].viewCount >= store[id].viewCount]_vars

C27_Witness ==
    \E p, q \in Batch, id \in Stored(store) :
        /\ store[id].viewCount = 2
        /\ calls[p].op = "update" /\ calls[p].res = OK /\ calls[p].id = id
        /\ calls[p].ret.post.viewCount = 1
        /\ calls[q].op = "incrementViewCount" /\ calls[q].res = OK

(***************************************************************************)
(* SpecScenario: one caller makes eight calls on one post, each after the  *)
(* one before has returned, while time passes.                              *)
(***************************************************************************)
Scenario ==
    <<"create", "publish", "publish", "addLike", "addLike", "removeLike",
      "archive", "archive">>

ScenarioCreates ==
    [title : Titles, content : {Content}, slug : {<<>>},
     status : {Null}, scheduledFor : {NoDate}, author : {1}]

InitScenario ==
    /\ up = TRUE
    /\ store = Init_store
    /\ nextId = 1
    /\ now = 0
    /\ calls = [k \in DOMAIN Scenario |-> Idle]

(* call k of the scenario is the one to make or to go on with *)
Turn(k, op) ==
    /\ Scenario[k] = op
    /\ calls[k].pc # "done"
    /\ \A j \in 1..(k - 1) : calls[j].pc = "done"

(* the post of the scenario: the one its first call created *)
ScenarioPost == calls[1].id

(* the user of the scenario: the one of its first like, once it is made *)
ScenarioUsers ==
    IF \E k \in DOMAIN Scenario : calls[k].op = "addLike"
    THEN {calls[k].arg.user : k \in {j \in DOMAIN Scenario : calls[j].op = "addLike"}}
    ELSE Users

NextScenario ==
    \/ \E k \in DOMAIN Scenario, post \in ScenarioCreates :
          Turn(k, "create") /\ Create(k, post)
    \/ \E k \in DOMAIN Scenario : Turn(k, "publish") /\ PublishFind(k, ScenarioPost)
    \/ \E k \in DOMAIN Scenario : Turn(k, "publish") /\ PublishMutate(k)
    \/ \E k \in DOMAIN Scenario, user \in ScenarioUsers :
          Turn(k, "addLike") /\ AddLikeFind(k, ScenarioPost, user)
    \/ \E k \in DOMAIN Scenario : Turn(k, "addLike") /\ AddLikeMutate(k)
    \/ \E k \in DOMAIN Scenario, user \in ScenarioUsers :
          Turn(k, "removeLike") /\ RemoveLikeFind(k, ScenarioPost, user)
    \/ \E k \in DOMAIN Scenario : Turn(k, "removeLike") /\ RemoveLikeMutate(k)
    \/ \E k \in DOMAIN Scenario : Turn(k, "archive") /\ ArchiveFind(k, ScenarioPost)
    \/ \E k \in DOMAIN Scenario : Turn(k, "archive") /\ ArchiveMutate(k)
    \/ Tick

SpecScenario == InitScenario /\ [][NextScenario]_vars

(* call k of the scenario has returned *)
C28_Returned(k) == calls[k].pc = "done"

(* C28: the eight calls return, in order: a draft with viewCount 0 and no  *)
(* likes; the post published, publishedAt set; Conflict; success, the post *)
(* holding one like, of the user, from then until the removeLike;          *)
(* Conflict; success and no like left; the post archived; success, the     *)
(* post still archived.                                                     *)
C28_Scenario ==
    /\ C28_Returned(1) =>
          /\ calls[1].res = OK
          /\ calls[1].ret.post.status = DRAFT
          /\ calls[1].ret.post.viewCount = 0
          /\ calls[1].ret.post.likes = <<>>
    /\ C28_Returned(2) =>
          /\ calls[2].res = OK
          /\ calls[2].ret.post.status = PUBLISHED
          /\ calls[2].ret.post.publishedAt # NoDate
    /\ C28_Returned(3) => (calls[3].res = CONFLICT /\ calls[3].ret = Absent)
    /\ C28_Returned(4) => calls[4].res = OK
    /\ (C28_Returned(4) /\ ~C28_Returned(6)) =>
          /\ Len(store[ScenarioPost].likes) = 1
          /\ store[ScenarioPost].likes[1].user = calls[4].arg.user
    /\ C28_Returned(5) => calls[5].res = CONFLICT
    /\ C28_Returned(6) =>
          (calls[6].res = OK /\ store[ScenarioPost].likes = <<>>)
    /\ C28_Returned(7) =>
          (calls[7].res = OK /\ calls[7].ret.post.status = ARCHIVED)
    /\ C28_Returned(8) =>
          /\ calls[8].res = OK
          /\ calls[8].ret.post.status = ARCHIVED
          /\ store[ScenarioPost].status = ARCHIVED
          /\ store[ScenarioPost].viewCount = 0

C28_Witness ==
    /\ \A k \in DOMAIN Scenario : calls[k].pc = "done" /\ calls[k].op = Scenario[k]
    /\ calls[8].ret = calls[7].ret
    /\ calls[2].ret.post.publishedAt = 0
    /\ now = MaxClock

(***************************************************************************)
(* BlogController.create, addLike, removeLike: the entry points that take  *)
(* the caller's identity from the request.                                  *)
(***************************************************************************)
UNAUTHORIZED == "Unauthorized"

(* req.user of a request that carries no identity *)
NoUser == 0

(* req.params.postId of a request that carries none *)
NoPostId == -2

(* a variant that takes every request for an identified one *)
Authenticated_Always(authUser) == TRUE

(* the negation of !authUser *)
Authenticated(authUser) == authUser # NoUser

(* { ...data, author: authUser.id } *)
WithAuthor(data, authUser) ==
    [title |-> data.title, content |-> data.content, slug |-> data.slug,
     status |-> data.status, scheduledFor |-> data.scheduledFor,
     author |-> authUser]

(* the entry point threw before it called the Service *)
Thrown_Early(op, res) == Finish(op, 0, NoArg, res, Absent)

CtrlCreate(p, authUser, data) ==
    IF ~Authenticated(authUser)
    THEN /\ calls[p].pc = "idle"
         /\ calls' = [calls EXCEPT ![p] = Thrown_Early("create", UNAUTHORIZED)]
         /\ UNCHANGED <<store, nextId, now, up>>
    ELSE IF data = Absent
    THEN /\ calls[p].pc = "idle"
         /\ calls' = [calls EXCEPT ![p] = Thrown_Early("create", BAD_REQUEST)]
         /\ UNCHANGED <<store, nextId, now, up>>
    ELSE Create(p, WithAuthor(data, authUser))

CtrlAddLike(p, authUser, postId) ==
    IF ~Authenticated(authUser)
    THEN /\ calls[p].pc = "idle"
         /\ calls' = [calls EXCEPT ![p] = Thrown_Early("addLike", UNAUTHORIZED)]
         /\ UNCHANGED <<store, nextId, now, up>>
    ELSE IF postId = NoPostId
    THEN /\ calls[p].pc = "idle"
         /\ calls' = [calls EXCEPT ![p] = Thrown_Early("addLike", BAD_REQUEST)]
         /\ UNCHANGED <<store, nextId, now, up>>
    ELSE AddLikeFind(p, postId, authUser)

CtrlRemoveLike(p, authUser, postId) ==
    IF ~Authenticated(authUser)
    THEN /\ calls[p].pc = "idle"
         /\ calls' = [calls EXCEPT ![p] = Thrown_Early("removeLike", UNAUTHORIZED)]
         /\ UNCHANGED <<store, nextId, now, up>>
    ELSE IF postId = NoPostId
    THEN /\ calls[p].pc = "idle"
         /\ calls' = [calls EXCEPT ![p] = Thrown_Early("removeLike", BAD_REQUEST)]
         /\ UNCHANGED <<store, nextId, now, up>>
    ELSE RemoveLikeFind(p, postId, authUser)

(***************************************************************************)
(* SpecCtrl: requests with and without an identity at the three entry      *)
(* points.                                                                   *)
(***************************************************************************)
CtrlUsers == {NoUser} \cup Users

CtrlBodies ==
    {Absent} \cup
    [title : {<<>>, <<"b">>}, content : {Content}, slug : {<<>>},
     status : {Null}, scheduledFor : {NoDate}]

CtrlPostIds == {NoPostId} \cup Ids

NextCtrl ==
    \/ \E p \in Procs, authUser \in CtrlUsers, data \in CtrlBodies :
          CtrlCreate(p, authUser, data)
    \/ \E p \in Procs, authUser \in CtrlUsers, postId \in CtrlPostIds :
          CtrlAddLike(p, authUser, postId)
    \/ \E p \in Procs : AddLikeMutate(p)
    \/ \E p \in Procs, authUser \in CtrlUsers, postId \in CtrlPostIds :
          CtrlRemoveLike(p, authUser, postId)
    \/ \E p \in Procs : RemoveLikeMutate(p)
    \/ \E p \in Procs : Return(p)

SpecCtrl == Init /\ [][NextCtrl]_vars

(* C29: a request without an identity at create, addLike or removeLike     *)
(* ends with Unauthorized in the step it is received, no Service operation *)
(* begun, and the store as it was.                                          *)
C29_UnauthorizedBeforeService ==
    [][\A p \in Procs :
          (\/ \E data \in CtrlBodies : CtrlCreate(p, NoUser, data)
           \/ \E postId \in CtrlPostIds : CtrlAddLike(p, NoUser, postId)
           \/ \E postId \in CtrlPostIds : CtrlRemoveLike(p, NoUser, postId))
          => /\ calls'[p].pc = "done"
             /\ calls'[p].res = UNAUTHORIZED
             /\ calls'[p].arg = NoArg
             /\ store' = store
             /\ nextId' = nextId]_vars

C29_Witness ==
    \E p, q \in Procs :
        /\ calls[p].op = "removeLike" /\ calls[p].res = UNAUTHORIZED
        /\ calls[q].op = "create" /\ calls[q].res = OK
        /\ calls[q].ret.post.author \in Users
        /\ Exists(store, calls[q].id)
        /\ Len(store[calls[q].id].likes) = 1

(***************************************************************************)
(* SpecCreate: creation.  Requests create posts with and without title,    *)
(* content, slug and status, on a store that may fail.                      *)
(***************************************************************************)
CreateInputs ==
    [title : {<<>>, <<"A", " ", "b">>, <<"b">>}, content : {<<>>, Content},
     slug : {<<>>, <<"B">>}, status : {Null, PUBLISHED},
     scheduledFor : {NoDate}, author : {1}]

NextCreate ==
    \/ \E p \in Procs, post \in CreateInputs : Create(p, post)
    \/ \E p \in Procs : Return(p)
    \/ StoreFails
    \/ StoreRecovers

SpecCreate == Init /\ [][NextCreate]_vars

(* the slug the Service hands to the repository for post *)
C21_Slug(post) == IF post.slug # <<>> THEN post.slug ELSE slugify(post.title)

(* what C21 and its amendment share: the outcome of the create call c on   *)
(* the store st, st2 being the store after it                               *)
C21_Outcome(c, st, st2, storeUp) ==
    /\ c.pc = "done"
    /\ IF c.arg.title = <<>> \/ c.arg.content = <<>>
       THEN c.res = BAD_REQUEST /\ st2 = st
       ELSE /\ c.res \in {OK, INTERNAL_SERVER_ERROR}
            /\ ~storeUp => c.res = INTERNAL_SERVER_ERROR
            /\ c.res = INTERNAL_SERVER_ERROR => st2 = st
            /\ c.res = OK =>
                  /\ ~Exists(st, c.ret.id)
                  /\ st2 = [st EXCEPT ![c.ret.id] = c.ret.post]
                  /\ c.ret.post.status =
                        IF c.arg.status # Null THEN c.arg.status ELSE DRAFT
                  /\ c.ret.post.viewCount = 0
                  /\ c.ret.post.likes = <<>>

UpdateCreates ==
    [title : {<<"A", " ", "b">>}, content : {Content}, slug : {<<>>},
     status : {Null, PUBLISHED}, scheduledFor : {NoDate}, author : {1}]

UpdateInputs ==
    {NoArg} \cup [status : {ARCHIVED}] \cup [slug : {<<"b">>}]
        \cup [title : {<<"b">>}, scheduledFor : {MaxClock + 1}]
        \cup [publishedAt : {0}, status : {PUBLISHED}]

NextUpdate ==
    \/ \E p \in Procs, post \in UpdateCreates : LifecycleCreate(p, post)
    \/ \E p \in Procs, id \in PostIds, updateData \in UpdateInputs :
          UpdateFind(p, id, updateData)
    \/ \E p \in Procs : UpdateMutate(p)
    \/ \E p \in Procs, id \in PostIds : Delete(p, id)
    \/ \E p \in Procs : Return(p)

SpecUpdate == Init /\ [][NextUpdate]_vars

(* the first step of an update call, as C22 and its amendment have it *)
C22_Check(p) ==
    Starts(p, "update") =>
       /\ store' = store
       /\ IF DOMAIN calls'[p].arg = {}
          THEN calls'[p].pc = "done" /\ calls'[p].res = BAD_REQUEST
          ELSE IF ~Exists(store, calls'[p].id)
               THEN calls'[p].pc = "done" /\ calls'[p].res = NOT_FOUND
               ELSE calls'[p].pc = "mutate"

(* the post of an update call after it set the fields of its payload, but  *)
(* for those in kept *)
C22_Updated(c, kept) ==
    [f \in DOMAIN store[c.id] |->
        IF f \in DOMAIN c.arg \ kept THEN c.arg[f] ELSE store[c.id][f]]

PageInputs == [page : 1..MaxPage, limit : 1..MaxLimit, total : 0..MaxTotal]

(* one request at a time lists the collection *)
Lister == Procs \ (2..MaxProcs)

NextPage ==
    \/ \E p \in Lister, params \in PageInputs : FindAllQuiescent(p, params)
    \/ \E p \in Lister : Return(p)

SpecPage == Init /\ [][NextPage]_vars

Min(a, b) == IF a < b THEN a ELSE b

Max(a, b) == IF a > b THEN a ELSE b

(* C24: the page findAll returns for total matching documents reports that *)
(* total, the least totalPages with totalPages * limit >= total, and holds *)
(* min(limit, max(0, total - (page - 1) * limit)) items: for total 23 and  *)
(* limit 10, 3 pages, 3 items on page 3 and none on page 4.                *)
C24_PageArithmetic ==
    \A p \in Procs :
        (calls[p].op = "getAll" /\ calls[p].pc = "done") =>
           LET params == calls[p].arg
               pagination == calls[p].ret.pagination
           IN  /\ calls[p].res = OK
               /\ pagination.total = params.total
               /\ pagination.page = params.page
               /\ pagination.limit = params.limit
               /\ pagination.totalPages * params.limit >= params.total
               /\ (pagination.totalPages - 1) * params.limit < params.total
               /\ Len(calls[p].ret.data) =
                     Min(params.limit,
                         Max(0, params.total - (params.page - 1) * params.limit))
               /\ (params.total = 23 /\ params.limit = 10) =>
                     /\ pagination.totalPages = 3
                     /\ params.page = 3 => Len(calls[p].ret.data) = 3
                     /\ params.page = 4 => Len(calls[p].ret.data) = 0

C24_Witness ==
    \E p \in Procs :
        /\ calls[p].op = "getAll" /\ calls[p].pc = "done"
        /\ calls[p].arg = [page |-> 3, limit |-> 10, total |-> 23]
        /\ calls[p].ret.data = <<21, 22, 23>>
        /\ calls[p].ret.pagination.totalPages = 3

(***************************************************************************)
(* SpecList: listing.  One request lists the posts, by page, search term   *)
(* and sort, while the others create, view and delete posts.               *)
(***************************************************************************)
ListCreates ==
    [title : {<<"a">>, <<"A", " ", "b">>}, content : {Content}, slug : {<<>>},
     status : {Null}, scheduledFor : {NoDate}, author : {1}]

ListQueries ==
    [page : {1, 2}, limit : {1, 2}, search : {<<>>, <<" ">>, <<"B">>},
     sortBy : {"createdAt", "viewCount"}, sortOrder : {"asc", "desc"}]

NextList ==
    \/ \E p \in Procs \ Lister, post \in ListCreates : Create(p, post)
    \/ \E p \in Procs \ Lister, id \in PostIds : IncrementViewCount(p, id)
    \/ \E p \in Procs \ Lister, id \in PostIds : Delete(p, id)
    \/ \E p \in Lister, query \in ListQueries, first \in {"find", "count"} :
          GetAllFirst(p, query, first)
    \/ \E p \in Lister : GetAllSecond(p)
    \/ \E p \in Procs : Return(p)

SpecList == Init /\ [][NextList]_vars

(* the second answer of the getAll call of p arrives and the first is one  *)
(* the store would still give: nothing was written in between that the     *)
(* call could tell                                                          *)
C25_Quiescent(p) ==
    /\ calls[p].op = "getAll" /\ calls'[p].pc = "done"
    /\ IF calls[p].pc = "count"
       THEN calls[p].seen \in FindQuery(store, calls[p].arg)
       ELSE calls[p].pc = "find" /\ calls[p].seen = CountQuery(store, calls[p].arg)

(* page holds, of the posts among matching, those from offset              *)
(* (page - 1) * limit on in the order of the sort, at most limit of them,  *)
(* and reports their number before slicing                                  *)
C25_IsPage(page, matching, query) ==
    LET Before(a, b) ==
            IF query.sortOrder = "asc"
            THEN SortValue(store, a, query.sortBy) < SortValue(store, b, query.sortBy)
            ELSE SortValue(store, a, query.sortBy) > SortValue(store, b, query.sortBy)
        data == page.data
        n == Len(page.data)
        offset == (query.page - 1) * query.limit
    IN  /\ page.pagination.total = Cardinality(matching)
        /\ n = Min(query.limit, Max(0, Cardinality(matching) - offset))
        /\ \A i \in 1..n :
              /\ data[i].id \in matching
              /\ data[i] = normalize(data[i].id, store[data[i].id])
        /\ \A i, j \in 1..n :
              i < j => (data[i].id # data[j].id /\ ~Before(data[j].id, data[i].id))
        /\ n > 0 =>
              /\ Cardinality({m \in matching : Before(m, data[1].id)}) <= offset
              /\ Cardinality({m \in matching : Before(data[n].id, m)})
                    <= Cardinality(matching) - offset - n

(* C25: on a store that is not written to between the two queries, getAll *)
(* returns the posts that match the search, sorted by the requested field  *)
(* and direction, from offset (page - 1) * limit on and at most limit of   *)
(* them; total is the number of matching posts.                             *)
C25_ListIsSortedSlice ==
    [][\A p \in Procs :
          C25_Quiescent(p) =>
             /\ calls'[p].res = OK
             /\ C25_IsPage(calls'[p].ret, Filter(store, calls[p].arg), calls[p].arg)]_vars

C25_Witness ==
    \E p \in Procs :
        /\ calls[p].op = "getAll" /\ calls[p].pc = "done"
        /\ calls[p].arg.sortBy = "viewCount" /\ calls[p].arg.sortOrder = "asc"
        /\ calls[p].arg.page = 2 /\ calls[p].arg.limit = 1
        /\ calls[p].arg.search = <<>>
        /\ calls[p].ret.pagination.total = 2
        /\ Len(calls[p].ret.data) = 1
        /\ calls[p].ret.data[1].id = 1
        /\ Stored(store) = {1, 2}
        /\ calls[p].ret.data[1].post = store[1]
        /\ store[1].viewCount > store[2].viewCount

(* C26 as claimed: with an empty search every stored post is eligible and  *)
(* counted; with any other search only the posts that match the text       *)
(* predicate are returned and counted.                                      *)
C26_SearchFiltersWhenNonEmpty ==
    [][\A p \in Procs :
          C25_Quiescent(p) =>
             C25_IsPage(calls'[p].ret,
                 IF calls[p].arg.search = <<>> THEN Stored(store)
                 ELSE {id \in Stored(store) : TextMatch(store[id], calls[p].arg.search)},
                 calls[p].arg)]_vars

(* C26 as amended: the same, a search of nothing but white space counting  *)
(* as an empty search.                                                      *)
C26_SearchFiltersWhenNotBlank ==
    [][\A p \in Procs :
          C25_Quiescent(p) =>
             C25_IsPage(calls'[p].ret,
                 IF \A i \in DOMAIN calls[p].arg.search : IsSpace(calls[p].arg.search[i])
                 THEN Stored(store)
                 ELSE {id \in Stored(store) : TextMatch(store[id], calls[p].arg.search)},
                 calls[p].arg)]_vars

C26_Witness ==
    \E p \in Procs :
        /\ calls[p].op = "getAll" /\ calls[p].pc = "done"
        /\ calls[p].arg.search = <<" ">>
        /\ calls[p].arg.limit = 2 /\ calls[p].arg.page = 1
        /\ calls[p].ret.pagination.total = 2
        /\ Len(calls[p].ret.data) = 2
        /\ Cardinality(Stored(store)) = 2


(* the operations that change a stored post *)
PostMutations ==
    {"update", "schedule", "publish", "archive", "incrementViewCount",
     "addLike", "removeLike"}

(* C31: an identifier that was given out and holds no post holds none      *)
(* after any step; a step of an update, schedule, publish, archive,        *)
(* incrementViewCount, addLike or removeLike call on an identifier that     *)
(* holds no post leaves the store as it was; and a post appears only by a   *)
(* create call that succeeds, under the identifier never given out before.  *)
C31_DeletedNeverReappears ==
    [][/\ \A id \in PostIds :
             (id < nextId /\ ~Exists(store, id)) => ~Exists(store', id)
       /\ \A p \in Batch :
             (/\ calls'[p] # calls[p]
              /\ calls'[p].op \in PostMutations
              /\ ~Exists(store, calls'[p].id))
             => store' = store
       /\ \A id \in PostIds :
             (~Exists(store, id) /\ Exists(store', id))
             => /\ id = nextId /\ nextId' = nextId + 1
                /\ \E p \in Batch :
                      /\ Starts(p, "create") /\ calls'[p].res = OK
                      /\ calls'[p].id = id
                /\ \A other \in PostIds \ {id} : store'[other] = store[other]]_vars

C31_Witness ==
    \E p, q, r \in Batch :
        /\ calls[p].op = "delete" /\ calls[p].res = OK /\ calls[p].id = 1
        /\ calls[q].op = "publish" /\ calls[q].id = 1
        /\ calls[q].res = INTERNAL_SERVER_ERROR
        /\ calls[r].op = "create" /\ calls[r].res = OK /\ calls[r].id = 2
        /\ ~Exists(store, 1) /\ Exists(store, 2)
        /\ up

(* C32: the likes of a post that stays stored change only by the write of  *)
(* an addLike call that succeeds, which appends one entry of its user, or   *)
(* of a removeLike call that succeeds, which removes the entries of its     *)
(* user and keeps the others in their order; its viewCount changes only by  *)
(* an incrementViewCount call that succeeds, by one; a step of an update,   *)
(* schedule, publish or archive call leaves both as they were.              *)
C32_EngagementFrame ==
    [][\A id \in Stored(store) :
          Exists(store', id) =>
             /\ store'[id].likes # store[id].likes =>
                   \E p \in Batch :
                      /\ calls[p].id = id /\ calls'[p].res = OK
                      /\ \/ /\ Mutates(p, {"addLike"})
                            /\ LikesOf(store[id], calls[p].arg.user) = {}
                            /\ Len(store'[id].likes) = Len(store[id].likes) + 1
                            /\ SubSeq(store'[id].likes, 1, Len(store[id].likes))
                                  = store[id].likes
                            /\ store'[id].likes[Len(store'[id].likes)].user
                                  = calls[p].arg.user
                         \/ /\ Mutates(p, {"removeLike"})
                            /\ store'[id].likes =
                                  SelectSeq(store[id].likes,
                                            LAMBDA l : l.user # calls[p].arg.user)
             /\ store'[id].viewCount # store[id].viewCount =>
                   /\ store'[id].viewCount = store[id].viewCount + 1
                   /\ \E p \in Batch :
                         /\ Starts(p, "incrementViewCount")
                         /\ calls'[p].id = id /\ calls'[p].res = OK
             /\ (\E p \in Batch :
                    /\ calls'[p] # calls[p]
                    /\ calls'[p].op \in {"update", "schedule", "publish", "archive"})
                => /\ store'[id].likes = store[id].likes
                   /\ store'[id].viewCount = store[id].viewCount]_vars

C32_Witness ==
    \E p, q, r \in Batch :
        /\ calls[p].op = "addLike" /\ calls[p].res = OK
        /\ calls[q].op = "removeLike" /\ calls[q].res = OK
        /\ calls[r].op = "incrementViewCount" /\ calls[r].res = OK
        /\ Exists(store, 1)
        /\ Len(store[1].likes) = 1 /\ store[1].likes[1].user # 1
        /\ store[1].viewCount = 1

(* C33: the page a getAll call returns holds as many items as its own      *)
(* total leaves for it: min(limit, max(0, total - (page - 1) * limit)),     *)
(* also when posts are created and deleted between its two queries.        *)
C33_PageConsistentWithTotal ==
    \A p \in Procs :
        (calls[p].op = "getAll" /\ calls[p].pc = "done" /\ calls[p].res = OK)
        => Len(calls[p].ret.data)
              = Min(calls[p].arg.limit,
                    Max(0, calls[p].ret.pagination.total
                              - (calls[p].arg.page - 1) * calls[p].arg.limit))

(***************************************************************************)
(* SpecSchedule: scheduling.  Requests create, update, schedule, publish   *)
(* and archive one post while time passes; updates name the status or the   *)
(* scheduled date.                                                           *)
(***************************************************************************)
ScheduleCreates ==
    [title : {<<"b">>}, content : {Content}, slug : {<<>>},
     status : {Null}, scheduledFor : {NoDate}, author : {1}]

(* IUpdateBlogDto: status?: IBlogPostStatus; scheduledFor?: Date | null *)
ScheduleUpdates == [status : {SCHEDULED}] \cup [scheduledFor : {NoDate}]

NextSchedule ==
    \/ \E p \in Procs, post \in ScheduleCreates : LifecycleCreate(p, post)
    \/ \E p \in Procs, id \in PostIds, updateData \in ScheduleUpdates :
          UpdateFind(p, id, updateData)
    \/ \E p \in Procs : UpdateMutate(p)
    \/ \E p \in Procs, id \in PostIds, publishDate \in Dates :
          ScheduleFind(p, id, publishDate)
    \/ \E p \in Procs : ScheduleMutate(p)
    \/ \E p \in Procs, id \in PostIds : PublishFind(p, id)
    \/ \E p \in Procs : PublishMutate(p)
    \/ \E p \in Procs, id \in PostIds : ArchiveFind(p, id)
    \/ \E p \in Procs : ArchiveMutate(p)
    \/ \E p \in Procs : Return(p)
    \/ Tick

SpecSchedule == Init /\ [][NextSchedule]_vars

(* C34: in every reachable state a post whose status is scheduled has      *)
(* scheduledFor set.                                                        *)
C34_ScheduledHasScheduledFor ==
    \A id \in Stored(store) :
        store[id].status = SCHEDULED => store[id].scheduledFor # NoDate

(***************************************************************************)
(* blogRouter: the routes of the like, unlike, schedule, publish and       *)
(* archive entry points.  A request that the middlewares of its route let   *)
(* through reaches the controller with req.params named as the path of the  *)
(* route names them and with the body the schema of the route accepted.     *)
(***************************************************************************)
(* the path parameter the route declares *)
RouteParam(route) ==
    IF route \in {"like", "unlike"} THEN "postId" ELSE "id"

(* req.params of a request on route for the post id *)
RouteParams(route, id) == [n \in {RouteParam(route)} |-> id]

(* const { postId } = req.params *)
ParamOf(params, name) == IF name \in DOMAIN params THEN params[name] ELSE NoPostId

(* const { publishDate } = req.body *)
FieldOf(body, name) == IF name \in DOMAIN body THEN body[name] ELSE NoDate

(* scheduleBlogSchema: strict, scheduledFor a date later than new Date() *)
scheduleBlogSchema(body) ==
    DOMAIN body = {"scheduledFor"} /\ body.scheduledFor > now

(* BlogController.schedule *)
ControllerSchedule(p, params, body) ==
    IF ParamOf(params, "postId") = NoPostId \/ FieldOf(body, "publishDate") = NoDate
    THEN /\ calls[p].pc = "idle"
         /\ calls' = [calls EXCEPT ![p] = Thrown_Early("schedule", BAD_REQUEST)]
         /\ UNCHANGED <<store, nextId, now, up>>
    ELSE ScheduleFind(p, ParamOf(params, "postId"), FieldOf(body, "publishDate"))

(* BlogController.publish *)
ControllerPublish(p, params) ==
    IF ParamOf(params, "postId") = NoPostId
    THEN /\ calls[p].pc = "idle"
         /\ calls' = [calls EXCEPT ![p] = Thrown_Early("publish", BAD_REQUEST)]
         /\ UNCHANGED <<store, nextId, now, up>>
    ELSE PublishFind(p, ParamOf(params, "postId"))

(* BlogController.archive *)
ControllerArchive(p, params) ==
    IF ParamOf(params, "postId") = NoPostId
    THEN /\ calls[p].pc = "idle"
         /\ calls' = [calls EXCEPT ![p] = Thrown_Early("archive", BAD_REQUEST)]
         /\ UNCHANGED <<store, nextId, now, up>>
    ELSE ArchiveFind(p, ParamOf(params, "postId"))

(* POST /:id/schedule, after validateBody(scheduleBlogSchema) *)
HttpSchedule(p, id, body) ==
    scheduleBlogSchema(body) /\ ControllerSchedule(p, RouteParams("schedule", id), body)

(* PATCH /:id/publish *)
HttpPublish(p, id) == ControllerPublish(p, RouteParams("publish", id))

(* PATCH /:id/archive *)
HttpArchive(p, id) == ControllerArchive(p, RouteParams("archive", id))

(* POST /:postId/like, after authenticate *)
HttpLike(p, authUser, id) ==
    CtrlAddLike(p, authUser, ParamOf(RouteParams("like", id), "postId"))

(* DELETE /:postId/unlike, after authenticate *)
HttpUnlike(p, authUser, id) ==
    CtrlRemoveLike(p, authUser, ParamOf(RouteParams("unlike", id), "postId"))

(***************************************************************************)
(* SpecRoute: requests on the five routes, and the creation of posts.      *)
(***************************************************************************)
RouteBodies == [scheduledFor : Dates] \cup [publishDate : Dates]

NextRoute ==
    \/ \E p \in Procs, authUser \in Users, data \in ScheduleCreates :
          CtrlCreate(p, authUser, data)
    \/ \E p \in Procs, authUser \in Users, id \in Ids : HttpLike(p, authUser, id)
    \/ \E p \in Procs : AddLikeMutate(p)
    \/ \E p \in Procs, authUser \in Users, id \in Ids : HttpUnlike(p, authUser, id)
    \/ \E p \in Procs : RemoveLikeMutate(p)
    \/ \E p \in Procs, id \in Ids, body \in RouteBodies : HttpSchedule(p, id, body)
    \/ \E p \in Procs, id \in Ids : HttpPublish(p, id)
    \/ \E p \in Procs, id \in Ids : HttpArchive(p, id)
    \/ \E p \in Procs : Return(p)

SpecRoute == Init /\ [][NextRoute]_vars

(* C35: a request on the schedule, publish or archive route for a stored   *)
(* post (on the schedule route with a body the schema accepts) reaches the  *)
(* Service operation for that post: it is not rejected BadRequest, and the  *)
(* call is one on that post.                                                *)
C35_RouteReachesService ==
    [][\A p \in Procs, id \in PostIds :
          (/\ Exists(store, id)
           /\ \/ \E body \in RouteBodies : HttpSchedule(p, id, body)
              \/ HttpPublish(p, id)
              \/ HttpArchive(p, id))
          => (calls'[p].res # BAD_REQUEST /\ calls'[p].id = id)]_vars
=============================================================================
